---- MODULE Spec2Model ----
(***************************************************************************)
(* State-machine model of simple_atm.py: Account (balance behind the       *)
(* class-wide reentrant lock), AtmBackend (class-wide pool of two          *)
(* processor locks, the account_numbers touch table, deposit / withdraw),  *)
(* and atm_session (semaphore gate, dispatch, barrier).                    *)
(*                                                                         *)
(* Every thread executes one call.  A "session" thread runs atm_session;   *)
(* a "direct" thread calls AtmBackend.deposit / AtmBackend.withdraw or the *)
(* Account.balance setter without passing the gate.                        *)
(***************************************************************************)
EXTENDS Integers, FiniteSets, Sequences, TLC

\* ---------------------------------------------------------------- bounds
NumThreads == 3
NumAccounts == 1
MaxAmount == 2
MaxInitBalance == 2

\* ------------------------------------------------------ program constants
\* locks = [threading.Lock() for _ in range(2)]
NumLocks == 2
\* atm_semaphore = threading.Semaphore(2)
GateCapacity == 2
\* the barrier sized to the number of sessions started (the argument the
\* source has commented out)
BarrierPartiesBatch == NumThreads

\* transaction_barrier = threading.Barrier(1)
BarrierParties == 1

Accounts == 1..NumAccounts
Locks == 1..NumLocks
Amounts == (0 - 1)..MaxAmount
InitBalances == (0 - 1)..MaxInitBalance

VARIABLES
    op,            \* thread -> the call it makes: [via, kind, amount, account]
    pc,            \* thread -> position in its call
    requested,     \* account -> `balance` argument its constructor was given
    balance,       \* account -> Account.__balance
    account_numbers, \* account -> AtmBackend.account_numbers entry (0 = absent)
    locks,         \* processor lock -> locked?
    guardOwner,    \* Account.reentrant_lock: owning thread, 0 = free
    guardCount,    \* Account.reentrant_lock: recursion level
    atm_semaphore, \* permits available
    barrierCount,  \* threads blocked in transaction_barrier.wait()
    scan,          \* thread -> position of the for loop of acquire_lock
    lock,          \* thread -> local `lock` of deposit / withdraw, 0 = None
    tmp,           \* thread -> value read in a read-modify-write
    response,      \* thread -> local `response` ("raise": exception in flight)
    ret            \* thread -> outcome of the call, "pending" until it returns

vars == <<op, pc, requested, balance, account_numbers, locks, guardOwner,
          guardCount, atm_semaphore, barrierCount, scan, lock, tmp,
          response, ret>>

Threads == DOMAIN op

Max(a, b) == IF a >= b THEN a ELSE b

\* a constructor that stores its argument as given
AccountInitUnclamped(b) == b

\* Account.__init__: self.__balance = max(balance, 0)
AccountInit(b) == Max(b, 0)

\* a setter that stores whatever it is given
SetterAcceptsAll(new_amount) == TRUE

\* Account.balance setter: the value is stored iff new_amount >= 0
SetterAccepts(new_amount) == new_amount >= 0

\* a test that lets the amount 0 through
AmountValidOrZero(amount) == amount >= 0

\* `amount > 0` of deposit / withdraw
AmountValid(amount) == amount > 0

\* a withdrawal that does not look at the balance
SufficientAlways(bal, amount) == TRUE

\* `account.balance >= amount` of withdraw
Sufficient(bal, amount) == bal >= amount

\* a guard that excludes nobody
GuardAvailableAlways(t) == TRUE

\* threading.RLock: acquirable by t when free or already owned by t
GuardAvailable(t) == guardOwner = 0 \/ guardOwner = t

\* an acquire that succeeds on a locked lock
LockFreeAlways(i) == TRUE

\* threading.Lock.acquire(timeout): succeeds when the lock is unlocked
LockFree(i) == ~locks[i]

\* a gate that admits every session
PermitFreeAlways == TRUE

\* a gate that still admits a session when no permit is left
PermitFreeOffByOne == atm_semaphore >= 0

\* threading.Semaphore.acquire: succeeds when a permit is left
PermitFree == atm_semaphore > 0

SessionOps ==
    [via : {"session"}, kind : {"deposit", "withdraw", "other"},
     amount : Amounts, account : Accounts]

DirectOps ==
    [via : {"direct"}, kind : {"deposit", "withdraw", "set"},
     amount : Amounts, account : Accounts]

\* where a thread stands before its call starts
StartPc(o) ==
    IF o.via = "session" THEN "gate"
    ELSE IF o.kind = "set" THEN "set_acquire"
    ELSE "touch"

InitShared(ops, bals) ==
    /\ op = ops
    /\ pc = [t \in DOMAIN ops |-> StartPc(ops[t])]
    /\ requested = bals
    /\ balance = [a \in Accounts |-> AccountInit(bals[a])]
    /\ account_numbers = [a \in Accounts |-> 0]
    /\ locks = [i \in Locks |-> FALSE]
    /\ guardOwner = 0
    /\ guardCount = 0
    /\ atm_semaphore = GateCapacity
    /\ barrierCount = 0
    /\ scan = [t \in DOMAIN ops |-> 0]
    /\ lock = [t \in DOMAIN ops |-> 0]
    /\ tmp = [t \in DOMAIN ops |-> 0]
    /\ response = [t \in DOMAIN ops |-> "false"]
    /\ ret = [t \in DOMAIN ops |-> "pending"]

\* Threads are interchangeable, so a batch of calls is listed once, in the
\* order of OpRank, instead of once per permutation of its threads.
KindRank(k) ==
    CASE k = "deposit" -> 0
      [] k = "withdraw" -> 1
      [] k = "set" -> 2
      [] OTHER -> 3

OpRank(o) ==
    (KindRank(o.kind) * NumAccounts + (o.account - 1)) * (MaxAmount + 2)
        + (o.amount + 1)

Ordered(ops) ==
    \A i \in DOMAIN ops : \A j \in DOMAIN ops :
        i < j => OpRank(ops[i]) <= OpRank(ops[j])

\* a batch of direct calls on freshly constructed accounts
InitDirect ==
    \E ops \in [1..NumThreads -> DirectOps] :
        \E bals \in [Accounts -> InitBalances] :
            Ordered(ops) /\ InitShared(ops, bals)

\* a batch of atm_session calls on freshly constructed accounts
InitSessions ==
    \E ops \in [1..NumThreads -> SessionOps] :
        \E bals \in [Accounts -> InitBalances] :
            Ordered(ops) /\ InitShared(ops, bals)

Init == InitDirect \/ InitSessions

\* --------------------------------------------------------------- helpers
\* a session that returns on a failed backend call without giving its
\* permit back
AfterCallLeakingOnFailure(t, r) ==
    IF op[t].via = "direct" THEN "done"
    ELSE IF r = "true" THEN "barrier"
    ELSE "done"

\* where a thread goes when its backend call delivers outcome r: a direct
\* caller is finished; a session goes on to the barrier, and an exception
\* leaves the `with atm_semaphore` block at once
AfterCall(t, r) ==
    IF op[t].via = "direct" THEN "done"
    ELSE IF r = "error" THEN "sem_release"
    ELSE "barrier"

Deliver(t, r) ==
    /\ ret' = [ret EXCEPT ![t] = r]
    /\ pc' = [pc EXCEPT ![t] = AfterCall(t, r)]

\* ------------------------------------------------------------ atm_session
\* a dispatch whose last branch treats every other kind as a deposit
CallsBackendByDefault(kind) == TRUE

\* the if / elif of atm_session: the kinds that reach atm.withdraw or
\* atm.deposit
CallsBackend(kind) == kind \in {"deposit", "withdraw"}

\* `with atm_semaphore:` entry, then the dispatch on transaction_type
SemAcquire(t) ==
    /\ pc[t] = "gate"
    /\ PermitFree
    /\ atm_semaphore' = atm_semaphore - 1
    /\ IF CallsBackend(op[t].kind)
       THEN /\ pc' = [pc EXCEPT ![t] = "touch"]
            /\ ret' = ret
       ELSE /\ pc' = [pc EXCEPT ![t] = "barrier"]
            /\ ret' = [ret EXCEPT ![t] = "false"]
    /\ UNCHANGED <<op, requested, balance, account_numbers, locks, guardOwner,
                   guardCount, barrierCount, scan, lock, tmp, response>>

\* transaction_barrier.wait(): the arrival that completes the party releases
\* everybody blocked at the barrier, any earlier arrival blocks
BarrierWait(t) ==
    /\ pc[t] = "barrier"
    /\ IF barrierCount + 1 >= BarrierParties
       THEN /\ barrierCount' = 0
            /\ pc' = [u \in Threads |->
                        IF u = t \/ pc[u] = "barrier_blocked"
                        THEN "sem_release" ELSE pc[u]]
       ELSE /\ barrierCount' = barrierCount + 1
            /\ pc' = [pc EXCEPT ![t] = "barrier_blocked"]
    /\ UNCHANGED <<op, requested, balance, account_numbers, locks, guardOwner,
                   guardCount, atm_semaphore, scan, lock, tmp, response, ret>>

\* `with atm_semaphore:` exit, then `return actions`
SemRelease(t) ==
    /\ pc[t] = "sem_release"
    /\ atm_semaphore' = atm_semaphore + 1
    /\ pc' = [pc EXCEPT ![t] = "done"]
    /\ UNCHANGED <<op, requested, balance, account_numbers, locks, guardOwner,
                   guardCount, barrierCount, scan, lock, tmp, response, ret>>

\* ------------------------------------------- AtmBackend.add_account_number
\* cls.account_numbers.get(account_number, 0)
TouchRead(t) ==
    /\ pc[t] = "touch"
    /\ tmp' = [tmp EXCEPT ![t] = account_numbers[op[t].account]]
    /\ pc' = [pc EXCEPT ![t] = "touch_store"]
    /\ UNCHANGED <<op, requested, balance, account_numbers, locks, guardOwner,
                   guardCount, atm_semaphore, barrierCount, scan, lock,
                   response, ret>>

\* cls.account_numbers[account_number] = ... + 1, then `response = False` and
\* the test `amount > 0` that decides whether acquire_lock is called at all
TouchStore(t) ==
    /\ pc[t] = "touch_store"
    /\ account_numbers' =
           [account_numbers EXCEPT ![op[t].account] = tmp[t] + 1]
    /\ tmp' = [tmp EXCEPT ![t] = 0]
    /\ IF AmountValid(op[t].amount)
       THEN /\ pc' = [pc EXCEPT ![t] = "acquire"]
            /\ scan' = [scan EXCEPT ![t] = 1]
            /\ ret' = ret
       ELSE /\ Deliver(t, "false")
            /\ scan' = scan
    /\ UNCHANGED <<op, requested, balance, locks, guardOwner, guardCount,
                   atm_semaphore, barrierCount, lock, response>>

\* ------------------------------------------------- AtmBackend.acquire_lock
\* lock.acquire(timeout=timeout) returns True: `return lock`
AcquireLockGet(t) ==
    /\ pc[t] = "acquire"
    /\ LockFree(scan[t])
    /\ locks' = [locks EXCEPT ![scan[t]] = TRUE]
    /\ lock' = [lock EXCEPT ![t] = scan[t]]
    /\ scan' = [scan EXCEPT ![t] = 0]
    /\ pc' = [pc EXCEPT ![t] = "guard"]
    /\ UNCHANGED <<op, requested, balance, account_numbers, guardOwner,
                   guardCount, atm_semaphore, barrierCount, tmp, response, ret>>

\* a scan that starts over after the last lock instead of giving up
ScanAfterRetrying(i) == IF i < NumLocks THEN i + 1 ELSE 1

\* `for lock in cls.locks`: the lock tried after lock i, 0 when the list is
\* used up and the loop ends
ScanAfter(i) == IF i < NumLocks THEN i + 1 ELSE 0

\* a caller that fails on the None it was handed (lock.release() on None)
NoLockOutcomeRaises == "error"

\* `amount > 0 and (lock := self.acquire_lock(...))` with acquire_lock
\* returning None: the block is skipped and `return response` gives False
NoLockOutcome == "false"

\* lock.acquire(timeout=timeout) returns False: the lock stayed locked until
\* the timeout ran out; the loop goes to the next lock, and after the last
\* one acquire_lock returns None and the caller returns response = False
AcquireLockTimeout(t) ==
    /\ pc[t] = "acquire"
    /\ ~LockFree(scan[t])
    /\ IF ScanAfter(scan[t]) # 0
       THEN /\ scan' = [scan EXCEPT ![t] = ScanAfter(scan[t])]
            /\ UNCHANGED <<pc, ret>>
       ELSE /\ scan' = [scan EXCEPT ![t] = 0]
            /\ Deliver(t, NoLockOutcome)
    /\ UNCHANGED <<op, requested, balance, account_numbers, locks, guardOwner,
                   guardCount, atm_semaphore, barrierCount, lock, tmp,
                   response>>

\* ----------------------------------------- deposit / withdraw, guarded part
\* `with Account.reentrant_lock:` entry
GuardAcquire(t) ==
    /\ pc[t] = "guard"
    /\ GuardAvailable(t)
    /\ guardOwner' = t
    /\ guardCount' = guardCount + 1
    /\ pc' = [pc EXCEPT ![t] =
                 IF op[t].kind = "withdraw" THEN "check" ELSE "read"]
    /\ UNCHANGED <<op, requested, balance, account_numbers, locks,
                   atm_semaphore, barrierCount, scan, lock, tmp, response, ret>>

\* withdraw: `if account.balance >= amount:` (the getter takes the guard
\* again, reads and gives it back)
CheckFunds(t) ==
    /\ pc[t] = "check"
    /\ GuardAvailable(t)
    /\ pc' = [pc EXCEPT ![t] =
                 IF Sufficient(balance[op[t].account], op[t].amount)
                 THEN "read" ELSE "guard_exit"]
    /\ UNCHANGED <<op, requested, balance, account_numbers, locks, guardOwner,
                   guardCount, atm_semaphore, barrierCount, scan, lock, tmp,
                   response, ret>>

\* the read half of `account.balance += amount` / `account.balance -= amount`
\* (deposit's inner `if amount > 0` repeats the test that let the call in)
ReadBalance(t) ==
    /\ pc[t] = "read"
    /\ GuardAvailable(t)
    /\ tmp' = [tmp EXCEPT ![t] = balance[op[t].account]]
    /\ pc' = [pc EXCEPT ![t] =
                 IF op[t].kind = "withdraw" \/ AmountValid(op[t].amount)
                 THEN "write" ELSE "guard_exit"]
    /\ UNCHANGED <<op, requested, balance, account_numbers, locks, guardOwner,
                   guardCount, atm_semaphore, barrierCount, scan, lock,
                   response, ret>>

\* a deposit that stores the amount instead of adding it
NewBalanceOverwrite(t) ==
    IF op[t].kind = "withdraw" THEN tmp[t] - op[t].amount
    ELSE op[t].amount

\* the value the augmented assignment hands to the setter
NewBalance(t) ==
    IF op[t].kind = "withdraw" THEN tmp[t] - op[t].amount
    ELSE tmp[t] + op[t].amount

\* the write half: the setter stores the value or raises ValueError; after a
\* store `response = True`
WriteBalance(t) ==
    /\ pc[t] = "write"
    /\ GuardAvailable(t)
    /\ IF SetterAccepts(NewBalance(t))
       THEN /\ balance' = [balance EXCEPT ![op[t].account] = NewBalance(t)]
            /\ response' = [response EXCEPT ![t] = "true"]
       ELSE /\ balance' = balance
            /\ response' = [response EXCEPT ![t] = "raise"]
    /\ tmp' = [tmp EXCEPT ![t] = 0]
    /\ pc' = [pc EXCEPT ![t] = "guard_exit"]
    /\ UNCHANGED <<op, requested, account_numbers, locks, guardOwner,
                   guardCount, atm_semaphore, barrierCount, scan, lock, ret>>

\* a release that only the successful path performs
ReleasedOnSuccess(t) ==
    IF response[t] = "true" THEN [locks EXCEPT ![lock[t]] = FALSE] ELSE locks

\* threading.Lock.release() of the lock that thread t was handed
Released(t) == [locks EXCEPT ![lock[t]] = FALSE]

\* a guard that its owner keeps when the `with` block ends
OwnerAfterExitKept == guardOwner

\* threading.RLock.release(): the owner is cleared when the recursion level
\* comes back to 0
OwnerAfterExit == IF guardCount - 1 <= 0 THEN 0 ELSE guardOwner

\* `with Account.reentrant_lock:` exit (also taken by an exception)
GuardRelease(t) ==
    /\ pc[t] = "guard_exit"
    /\ guardCount' = guardCount - 1
    /\ guardOwner' = OwnerAfterExit
    /\ pc' = [pc EXCEPT ![t] = "finally"]
    /\ UNCHANGED <<op, requested, balance, account_numbers, locks,
                   atm_semaphore, barrierCount, scan, lock, tmp, response, ret>>

\* `finally: lock.release()`, then `return response` or the exception goes on
LockRelease(t) ==
    /\ pc[t] = "finally"
    /\ locks' = Released(t)
    /\ Deliver(t, IF response[t] = "raise" THEN "error" ELSE response[t])
    /\ UNCHANGED <<op, requested, balance, account_numbers, guardOwner,
                   guardCount, atm_semaphore, barrierCount, scan, lock, tmp,
                   response>>

\* ------------------------------------------------- Account.balance setter
\* `with Account.reentrant_lock:` entry of a direct `account.balance = v`
SetAcquire(t) ==
    /\ pc[t] = "set_acquire"
    /\ GuardAvailable(t)
    /\ guardOwner' = t
    /\ guardCount' = guardCount + 1
    /\ pc' = [pc EXCEPT ![t] = "set_store"]
    /\ UNCHANGED <<op, requested, balance, account_numbers, locks,
                   atm_semaphore, barrierCount, scan, lock, tmp, response, ret>>

\* the body of the setter and the exit of its `with` block
SetStore(t) ==
    /\ pc[t] = "set_store"
    /\ IF SetterAccepts(op[t].amount)
       THEN /\ balance' = [balance EXCEPT ![op[t].account] = op[t].amount]
            /\ ret' = [ret EXCEPT ![t] = "true"]
       ELSE /\ balance' = balance
            /\ ret' = [ret EXCEPT ![t] = "error"]
    /\ guardCount' = guardCount - 1
    /\ guardOwner' = IF guardCount - 1 <= 0 THEN 0 ELSE guardOwner
    /\ pc' = [pc EXCEPT ![t] = "done"]
    /\ UNCHANGED <<op, requested, account_numbers, locks, atm_semaphore,
                   barrierCount, scan, lock, tmp, response>>

Next ==
    \E t \in Threads :
        \/ SemAcquire(t)
        \/ BarrierWait(t)
        \/ SemRelease(t)
        \/ TouchRead(t)
        \/ TouchStore(t)
        \/ AcquireLockGet(t)
        \/ AcquireLockTimeout(t)
        \/ GuardAcquire(t)
        \/ CheckFunds(t)
        \/ ReadBalance(t)
        \/ WriteBalance(t)
        \/ GuardRelease(t)
        \/ LockRelease(t)
        \/ SetAcquire(t)
        \/ SetStore(t)

\* what atm_session threads can do (no direct use of the setter)
NextSessions ==
    \E t \in Threads :
        \/ SemAcquire(t)
        \/ BarrierWait(t)
        \/ SemRelease(t)
        \/ TouchRead(t)
        \/ TouchStore(t)
        \/ AcquireLockGet(t)
        \/ AcquireLockTimeout(t)
        \/ GuardAcquire(t)
        \/ CheckFunds(t)
        \/ ReadBalance(t)
        \/ WriteBalance(t)
        \/ GuardRelease(t)
        \/ LockRelease(t)

\* the sample execution of __main__: one account constructed with 1000 and
\* five sessions submitted to a pool of five workers
ScenarioOps ==
    <<[via |-> "session", kind |-> "withdraw", amount |-> 200, account |-> 1],
      [via |-> "session", kind |-> "deposit", amount |-> 500, account |-> 1],
      [via |-> "session", kind |-> "withdraw", amount |-> 300, account |-> 1],
      [via |-> "session", kind |-> "withdraw", amount |-> 100, account |-> 1],
      [via |-> "session", kind |-> "deposit", amount |-> 400, account |-> 1]>>

InitScenario == InitShared(ScenarioOps, [a \in Accounts |-> 1000])

\* any batch of direct calls or of sessions
Spec == Init /\ [][Next]_vars

\* any batch of sessions
SpecSessions == InitSessions /\ [][NextSessions]_vars

\* the sample execution
SpecScenario == InitScenario /\ [][NextSessions]_vars

\* a thread that can take a step is eventually scheduled
ThreadStep(t) ==
    \/ SemAcquire(t)
    \/ BarrierWait(t)
    \/ SemRelease(t)
    \/ TouchRead(t)
    \/ TouchStore(t)
    \/ AcquireLockGet(t)
    \/ AcquireLockTimeout(t)
    \/ GuardAcquire(t)
    \/ CheckFunds(t)
    \/ ReadBalance(t)
    \/ WriteBalance(t)
    \/ GuardRelease(t)
    \/ LockRelease(t)

FairSessions ==
    /\ InitSessions
    /\ [][NextSessions]_vars
    /\ \A t \in 1..NumThreads : WF_vars(ThreadStep(t))

\* ------------------------------------------------------------ vocabulary
AllDone == \A t \in Threads : pc[t] = "done"

\* the batch consists of deposit / withdraw calls (and sessions of unknown
\* kind, which call nothing); nobody assigns the balance directly
NoSetter == \A t \in Threads : op[t].kind # "set"

\* the balance of account a when its constructor returned
InitialBalance(a) == AccountInit(requested[a])

\* the positions between `return lock` of acquire_lock and lock.release()
HoldingPcs == {"guard", "check", "read", "write", "guard_exit", "finally"}

\* thread t holds processor lock i
Holds(t, i) == lock[t] = i /\ pc[t] \in HoldingPcs

\* the call of t was granted a processor (its `lock` is not None)
Granted(t) == lock[t] # 0

\* what the call of t, having returned, added to account a
Effect(t, a) ==
    IF op[t].account = a /\ ret[t] = "true"
    THEN IF op[t].kind = "deposit" THEN op[t].amount
         ELSE IF op[t].kind = "withdraw" THEN 0 - op[t].amount
         ELSE 0
    ELSE 0

RECURSIVE NetEffect(_, _)
NetEffect(S, a) ==
    IF S = {} THEN 0
    ELSE LET t == CHOOSE x \in S : TRUE
         IN Effect(t, a) + NetEffect(S \ {t}, a)

\* deposit / withdraw of a granted call run alone on balance bal: the result
\* and the balance it leaves
SeqResult(o, bal) ==
    IF o.kind = "deposit"
    THEN IF AmountValid(o.amount) /\ SetterAccepts(bal + o.amount)
         THEN [ok |-> TRUE, bal |-> bal + o.amount]
         ELSE [ok |-> FALSE, bal |-> bal]
    ELSE IF Sufficient(bal, o.amount) /\ SetterAccepts(bal - o.amount)
         THEN [ok |-> TRUE, bal |-> bal - o.amount]
         ELSE [ok |-> FALSE, bal |-> bal]

\* the orders in which the threads of S can be lined up
Orders(S) ==
    {s \in [1..Cardinality(S) -> S] :
        \A i \in DOMAIN s : \A j \in DOMAIN s : i # j => s[i] # s[j]}

\* replaying s[i], s[i+1], ... one at a time from balances bal reproduces every
\* result and ends in the balances of the current state
RECURSIVE ReplayMatches(_, _, _)
ReplayMatches(s, i, bal) ==
    IF i > Len(s) THEN bal = balance
    ELSE LET t == s[i]
             r == SeqResult(op[t], bal[op[t].account])
         IN /\ r.ok = (ret[t] = "true")
            /\ ReplayMatches(s, i + 1, [bal EXCEPT ![op[t].account] = r.bal])

\* ----------------------------------------------------------------- claims
\* C1: once every call of a batch of deposit / withdraw calls has returned,
\* each account's balance is its initial balance plus the amounts of the
\* deposits that returned true minus the amounts of the withdrawals that
\* returned true.
C1_NoLostUpdate ==
    (AllDone /\ NoSetter) =>
        \A a \in Accounts :
            balance[a] = InitialBalance(a) + NetEffect(Threads, a)

\* three direct calls are over: a deposit and a withdrawal succeeded and a
\* third call with a valid amount found the whole pool taken
C1_Witness ==
    /\ AllDone /\ NoSetter
    /\ \E t \in Threads : op[t].kind = "deposit" /\ ret[t] = "true"
    /\ \E t \in Threads : op[t].kind = "withdraw" /\ ret[t] = "true"
    /\ \E t \in Threads :
          op[t].via = "direct" /\ op[t].amount > 0 /\ ~Granted(t)

\* C2: when a batch of deposit / withdraw calls is over, the granted calls
\* can be put in some order whose one-at-a-time replay from the initial
\* balances gives every call the result it returned and ends in the balances
\* reached.
C2_Serializable ==
    (AllDone /\ NoSetter) =>
        \E s \in Orders({t \in Threads : Granted(t)}) :
            ReplayMatches(s, 1, [a \in Accounts |-> InitialBalance(a)])

\* the batch is over and only one order explains it: a withdrawal was refused
\* for lack of funds although a deposit of the batch covered it
C2_Witness ==
    /\ AllDone /\ NoSetter
    /\ \E t \in Threads : \E u \in Threads :
          /\ op[t].kind = "withdraw" /\ Granted(t) /\ ret[t] = "false"
          /\ op[u].kind = "deposit" /\ ret[u] = "true"
          /\ op[u].account = op[t].account
          /\ op[t].amount <= balance[op[t].account]

\* C3: in every reachable state every account's balance is >= 0, whatever the
\* constructor was given and whatever deposit, withdraw and setter calls ran.
C3_BalanceNonNegative == \A a \in Accounts : balance[a] >= 0

\* an account constructed with a negative balance, emptied by a withdrawal,
\* after a direct assignment of a negative value was refused
C3_Witness ==
    \E a \in Accounts :
        /\ requested[a] < 0
        /\ balance[a] = 0
        /\ \E t \in Threads :
              op[t].kind = "set" /\ op[t].account = a /\ op[t].amount < 0
              /\ ret[t] = "error"
        /\ \E t \in Threads :
              op[t].kind = "withdraw" /\ op[t].account = a /\ ret[t] = "true"

\* C4: in the sample execution (1000; withdraw 200, deposit 500, withdraw 300,
\* withdraw 100, deposit 400) no session reports failure, and when all five
\* have returned the balance is 1300.
C4_Scenario ==
    /\ \A t \in Threads : ret[t] \in {"pending", "true"}
    /\ AllDone => balance[1] = 1300

\* the five sessions have returned and one of them had to use the second
\* processor because the first was taken
C4_Witness ==
    /\ AllDone
    /\ Cardinality(Threads) = 5
    /\ \E t \in Threads : lock[t] = 2

\* a withdrawal that found the balance short and is on its way out
InsufficientPath(t) ==
    /\ op[t].kind = "withdraw"
    /\ pc[t] \in {"guard_exit", "finally"}
    /\ response[t] = "false"

\* C5: a withdrawal whose amount exceeds the balance when it checks under the
\* guard goes straight to the exit with response false; no step it takes from
\* there changes a balance, and it returns false.  Every such check behaves
\* so, a repeated one included.
C5_InsufficientFunds ==
    [][\A t \in Threads :
          /\ (/\ pc[t] = "check"
              /\ pc'[t] # "check"
              /\ op[t].amount > balance[op[t].account])
                => (/\ pc'[t] = "guard_exit"
                    /\ response'[t] = "false"
                    /\ balance' = balance)
          /\ (InsufficientPath(t) /\ pc'[t] # pc[t])
                => (/\ balance' = balance
                    /\ (pc[t] = "finally" => ret'[t] = "false"))]_vars

\* two withdrawals of the same amount from the same account were both granted
\* a processor and both refused, and the balance is still below the amount
C5_Witness ==
    \E t \in Threads : \E u \in Threads :
        /\ t # u
        /\ op[t].kind = "withdraw" /\ op[u].kind = "withdraw"
        /\ op[t].account = op[u].account /\ op[t].amount = op[u].amount
        /\ Granted(t) /\ Granted(u)
        /\ pc[t] = "done" /\ pc[u] = "done"
        /\ ret[t] = "false" /\ ret[u] = "false"
        /\ balance[op[t].account] < op[t].amount
        /\ balance[op[t].account] = InitialBalance(op[t].account)

\* a deposit or withdraw call whose amount is <= 0
Invalid(t) == op[t].kind \in {"deposit", "withdraw"} /\ op[t].amount <= 0

\* C6: a deposit or withdraw with amount <= 0 never reaches acquire_lock or
\* the guarded block, is handed no lock, returns false, and none of its steps
\* changes a processor lock, the balance guard or a balance.
C6_InvalidAmountFrame ==
    [][\A t \in Threads :
          Invalid(t) =>
              /\ pc'[t] \notin ({"acquire"} \cup HoldingPcs)
              /\ lock'[t] = 0
              /\ scan'[t] = 0
              /\ ret'[t] \in {"pending", "false"}
              /\ pc'[t] # pc[t] =>
                    /\ locks' = locks
                    /\ balance' = balance
                    /\ guardOwner' = guardOwner
                    /\ guardCount' = guardCount]_vars

\* a call with amount <= 0 has returned false after touching the table,
\* while another call was in the middle of its guarded block
C6_Witness ==
    \E t \in Threads : \E u \in Threads :
        /\ Invalid(t)
        /\ pc[t] = "done" /\ ret[t] = "false"
        /\ account_numbers[op[t].account] > 0
        /\ pc[u] = "write"

\* C7: no processor lock is held by two calls at once, and a lock that a call
\* holds is locked.
C7_ProcessorExclusive ==
    \A i \in Locks :
        /\ \A t \in Threads : \A u \in Threads :
              (Holds(t, i) /\ Holds(u, i)) => t = u
        /\ \A t \in Threads : Holds(t, i) => locks[i]

\* both processors are held, by two calls, while a third call is scanning
\* the pool
C7_Witness ==
    \E t \in Threads : \E u \in Threads : \E w \in Threads :
        /\ Holds(t, 1) /\ Holds(u, 2)
        /\ pc[w] = "acquire" /\ scan[w] = 2

\* the session of t is inside its `with atm_semaphore:` block
InGate(t) == op[t].via = "session" /\ pc[t] \notin {"gate", "done"}

\* the session of t is inside the deposit / withdraw call
InBackend(t) ==
    /\ op[t].via = "session"
    /\ pc[t] \in ({"touch", "touch_store", "acquire"} \cup HoldingPcs)

\* C8: at most GateCapacity (2) sessions are inside the gated block, hence at
\* most 2 are inside the backend call, however many were started.
C8_GateBound ==
    /\ Cardinality({t \in Threads : InGate(t)}) <= GateCapacity
    /\ Cardinality({t \in Threads : InBackend(t)}) <= GateCapacity

\* two sessions are inside the backend call and a third waits at the gate
C8_Witness ==
    /\ Cardinality({t \in Threads : InBackend(t)}) = GateCapacity
    /\ \E t \in Threads : op[t].via = "session" /\ pc[t] = "gate"
    /\ atm_semaphore = 0

\* C9: under fair scheduling every session of a batch eventually returns: no
\* session stays blocked at the gate, on a processor lock, on the balance
\* guard or at the barrier.
C9_SessionsTerminate == <>AllDone

\* a batch of deposit / withdraw sessions, more than the gate admits at once,
\* has returned; one of them used the second processor because the first was
\* taken, and every permit is back
C9_Witness ==
    /\ AllDone
    /\ \A t \in Threads : op[t].via = "session"
    /\ \E t \in Threads : lock[t] = 2
    /\ \A t \in Threads : op[t].kind \in {"deposit", "withdraw"}
    /\ atm_semaphore = GateCapacity

\* C10: a processor lock is locked exactly while some call is between its
\* successful acquire and its release; a lock is unlocked only by the step
\* with which its holder leaves the `finally` clause, and every holder leaves
\* by unlocking the lock it holds, whether it succeeded or found the funds
\* short; when every call has returned, all processor locks are free.
C10_ReleaseOncePerAcquire ==
    [][\A i \in Locks :
          /\ locks'[i] <=> (\E t \in Threads : Holds(t, i)')
          /\ (locks[i] /\ ~locks'[i]) =>
                \E t \in Threads :
                    Holds(t, i) /\ pc[t] = "finally" /\ pc'[t] \notin HoldingPcs
          /\ \A t \in Threads :
                (Holds(t, i) /\ pc'[t] \notin HoldingPcs) =>
                    (pc[t] = "finally" /\ locks[i] /\ ~locks'[i])
          /\ AllDone' => ~locks'[i]]_vars

\* every call has returned, among them a granted withdrawal refused for lack
\* of funds and a granted call that succeeded on the other processor, and
\* both locks are free
C10_Witness ==
    /\ AllDone
    /\ \A i \in Locks : ~locks[i]
    /\ \E t \in Threads : \E u \in Threads :
          /\ Granted(t) /\ ret[t] = "false"
          /\ Granted(u) /\ ret[u] = "true"
          /\ lock[t] # lock[u]

\* a deposit or withdraw call with a valid amount
ValidCall(t) == op[t].kind \in {"deposit", "withdraw"} /\ op[t].amount > 0

\* C11: a deposit or withdraw with amount > 0 that is handed no processor
\* never enters the guarded block and never owns the balance guard; the step
\* with which it gives up returns false (no exception) and changes no
\* balance, no processor lock and not the guard, and it holds no processor
\* afterwards.
C11_UnavailableIsFalse ==
    [][\A t \in Threads :
          (ValidCall(t) /\ lock'[t] = 0) =>
              /\ pc'[t] \notin HoldingPcs
              /\ guardOwner' # t
              /\ ret'[t] \in {"pending", "false"}
              /\ (pc[t] = "acquire" /\ pc'[t] # "acquire") =>
                    /\ ret'[t] = "false"
                    /\ balance' = balance
                    /\ locks' = locks
                    /\ guardOwner' = guardOwner
                    /\ guardCount' = guardCount
                    /\ \A i \in Locks : ~Holds(t, i)']_vars

\* a call with a valid amount has returned false without a processor while
\* two other calls held both processors, one of them inside the guard
C11_Witness ==
    \E t \in Threads : \E u \in Threads : \E w \in Threads :
        /\ ValidCall(t) /\ ~Granted(t)
        /\ pc[t] = "done" /\ ret[t] = "false"
        /\ Holds(u, 1) /\ Holds(w, 2)
        /\ guardOwner = u

\* every processor lock is locked
PoolExhausted == \A i \in Locks : locks[i]

\* what one step of a call inside acquire_lock does while the pool is
\* exhausted: the attempt on the current lock times out, no lock changes and
\* none is handed out; the scan moves to the next lock of the list, and after
\* the last one the call returns false
ExhaustedEffect(t) ==
    /\ locks' = locks
    /\ lock'[t] = 0
    /\ IF scan[t] < NumLocks
       THEN scan'[t] = scan[t] + 1 /\ pc'[t] = "acquire" /\ ret'[t] = "pending"
       ELSE pc'[t] # "acquire" /\ ret'[t] = "false"

\* C12: while all processor locks are held, a call inside acquire_lock is not
\* stuck: it can take a step, and every step it can take is one timed-out
\* attempt that follows the list order and ends, after the last lock, in the
\* negative result, with nothing acquired and no lock changed.
C12_ExhaustedPoolTimesOut ==
    \A t \in Threads :
        (pc[t] = "acquire" /\ PoolExhausted) =>
            /\ scan[t] \in Locks
            /\ lock[t] = 0
            /\ ENABLED ThreadStep(t)
            /\ ~ENABLED (ThreadStep(t) /\ ~ExhaustedEffect(t))

\* a call made both attempts against a pool that two other calls kept taken
\* and has returned false, the two others still holding their locks
C12_Witness ==
    /\ PoolExhausted
    /\ \E t \in Threads :
          /\ ValidCall(t) /\ ~Granted(t)
          /\ pc[t] = "done" /\ ret[t] = "false"
    /\ \E u \in Threads : \E w \in Threads :
          Holds(u, 1) /\ Holds(w, 2) /\ pc[u] = "guard" /\ pc[w] = "guard"

\* C13: a call waiting inside acquire_lock obtains a processor when one is
\* released and nobody else takes it.  A lock that is free when the call gives
\* up was locked when the scan passed it, so it was released during the wait
\* and left untaken; the claim therefore says that the step returning
\* 'no resource available' is taken only while every processor lock is
\* locked.
C13_ReleasedIsAvailable ==
    [][\A t \in Threads :
          (pc[t] = "acquire" /\ pc'[t] # "acquire" /\ lock'[t] = 0)
              => PoolExhausted]_vars

\* a session whose kind is neither "deposit" nor "withdraw"
UnknownKind(t) ==
    op[t].via = "session" /\ op[t].kind \notin {"deposit", "withdraw"}

\* C14: a session of unknown kind only passes the gate and the barrier: it is
\* never inside a backend call, its success flag is false, and none of its
\* steps changes the touch table, a processor lock, the balance guard or a
\* balance; it takes one permit and gives it back.
C14_UnknownKindFrame ==
    [][\A t \in Threads :
          UnknownKind(t) =>
              /\ pc'[t] \in {"gate", "barrier", "barrier_blocked",
                             "sem_release", "done"}
              /\ ret'[t] \in {"pending", "false"}
              /\ lock'[t] = 0
              /\ pc'[t] # pc[t] =>
                    /\ account_numbers' = account_numbers
                    /\ locks' = locks
                    /\ guardOwner' = guardOwner
                    /\ guardCount' = guardCount
                    /\ balance' = balance
                    /\ (pc[t] = "gate" =>
                          atm_semaphore' = atm_semaphore - 1 /\ ret'[t] = "false")
                    /\ (pc[t] = "sem_release" =>
                          atm_semaphore' = atm_semaphore + 1)
                    /\ (pc[t] \notin {"gate", "sem_release"} =>
                          atm_semaphore' = atm_semaphore)]_vars

\* a session of unknown kind has returned with success false while another
\* session was writing a balance, and the table holds only the touch of that
\* other session
C14_Witness ==
    \E t \in Threads : \E u \in Threads :
        /\ UnknownKind(t)
        /\ pc[t] = "done" /\ ret[t] = "false"
        /\ pc[u] = "write"
        /\ account_numbers[op[t].account] = 1

\* the deposit / withdraw calls of the batch on account a
BackendCalls(a) ==
    {t \in Threads :
        op[t].kind \in {"deposit", "withdraw"} /\ op[t].account = a}

\* a call that has got past add_account_number
Touched(t) ==
    /\ op[t].kind \in {"deposit", "withdraw"}
    /\ pc[t] \notin {"gate", "touch", "touch_store"}

\* C15: every deposit / withdraw call increments its account's entry exactly
\* once: at any moment the entry of an account is at least the number of
\* calls on it that have got past the increment, and once all calls have
\* returned it equals the number of deposit / withdraw calls made on it.
C15_TouchCountsEveryCall ==
    \A a \in Accounts :
        /\ account_numbers[a] >=
              Cardinality({t \in BackendCalls(a) : Touched(t)})
        /\ AllDone => account_numbers[a] = Cardinality(BackendCalls(a))

\* the session of t has got past transaction_barrier.wait()
PastBarrier(t) == op[t].via = "session" /\ pc[t] \in {"sem_release", "done"}

\* the session of t has arrived at transaction_barrier.wait()
AtBarrier(t) ==
    /\ op[t].via = "session"
    /\ pc[t] \in {"barrier", "barrier_blocked", "sem_release", "done"}

\* C16: no session of a batch is past the barrier before every session of the
\* batch has arrived at it.
C16_BarrierHoldsBatch ==
    (\E t \in Threads : PastBarrier(t)) =>
        \A u \in Threads : op[u].via = "session" => AtBarrier(u)

\* a direct `account.balance = v`
SetterCall(t) == op[t].kind = "set"

\* C17: the step in which the setter handles v raises (and leaves every
\* balance as it was) when v < 0 and stores v in its account, leaving the
\* others, when v >= 0; either way the guard is free after the step, and a
\* setter call that is over never owns the guard.
C17_SetterRejectsNegative ==
    [][\A t \in Threads :
          SetterCall(t) =>
              /\ (pc[t] = "set_store" /\ pc'[t] # "set_store") =>
                    /\ IF op[t].amount < 0
                       THEN ret'[t] = "error" /\ balance' = balance
                       ELSE /\ ret'[t] = "true"
                            /\ balance' =
                                 [balance EXCEPT ![op[t].account] = op[t].amount]
                    /\ guardOwner' = 0
                    /\ guardCount' = 0
              /\ pc'[t] = "done" => guardOwner' # t]_vars

\* an assignment of a negative value was refused, and after it another
\* thread's deposit is inside the guard, working on the balance the
\* account was constructed with
C17_Witness ==
    \E t \in Threads : \E u \in Threads :
        /\ SetterCall(t) /\ op[t].amount < 0
        /\ pc[t] = "done" /\ ret[t] = "error"
        /\ op[u].kind = "deposit" /\ op[u].account = op[t].account
        /\ pc[u] = "write" /\ guardOwner = u
        /\ balance[op[t].account] = InitialBalance(op[t].account)
        /\ \A w \in Threads : w \notin {t, u} => pc[w] = StartPc(op[w])

\* C18: the permits available and the sessions inside the gated block always
\* add up to the capacity of the gate (2), whatever the backend calls
\* returned, and when all sessions have returned every permit is available.
C18_PermitsConserved ==
    /\ atm_semaphore + Cardinality({t \in Threads : InGate(t)}) = GateCapacity
    /\ AllDone => atm_semaphore = GateCapacity

\* every session of a batch has returned, one after a refused backend call
\* and one after a successful one, and both permits are available
C18_Witness ==
    /\ AllDone
    /\ atm_semaphore = GateCapacity
    /\ \E t \in Threads : \E u \in Threads :
          /\ op[t].via = "session" /\ op[u].via = "session"
          /\ ValidCall(t) /\ ret[t] = "false"
          /\ ret[u] = "true"

\* the deposit / withdraw call of t owns the balance guard
OwnsGuard(t) == op[t].kind \in {"deposit", "withdraw"} /\ guardOwner = t

\* C19: a deposit / withdraw call owns the balance guard only while it holds
\* a processor lock and is inside the guarded block; a call scanning the pool
\* owns neither the guard nor a lock; the locked processor locks are exactly
\* one per call between acquire and release, so no call holds two; and a
\* call about to release its processor has already given the guard back.
C19_LockOrder ==
    /\ \A t \in Threads :
          /\ OwnsGuard(t) =>
                /\ pc[t] \in {"check", "read", "write", "guard_exit"}
                /\ \E i \in Locks : Holds(t, i) /\ locks[i]
          /\ pc[t] = "acquire" => (guardOwner # t /\ lock[t] = 0)
          /\ pc[t] \in {"guard", "finally"} => guardOwner # t
    /\ Cardinality({i \in Locks : locks[i]})
          = Cardinality({t \in Threads : pc[t] \in HoldingPcs})

\* one call is between giving the guard back and releasing its processor,
\* a second one, on the other processor, owns the guard, and a third is
\* scanning the pool
C19_Witness ==
    \E t \in Threads : \E u \in Threads : \E w \in Threads :
        /\ pc[t] = "finally" /\ Holds(t, 1)
        /\ OwnsGuard(u) /\ Holds(u, 2)
        /\ pc[w] = "acquire"

\* every call of the batch is made through atm_session
AllSessions == \A t \in Threads : op[t].via = "session"

\* C20: when every backend call is made by a session, no call with a valid
\* amount comes back from acquire_lock empty-handed: a deposit session with
\* amount > 0 reports true, and a withdraw session reports false only for
\* amount <= 0 or after it was granted a processor and found the funds short.
C20_SessionsNeverStarved ==
    AllSessions =>
        \A t \in Threads :
            /\ (ValidCall(t) /\ AtBarrier(t)) => Granted(t)
            /\ (op[t].kind = "deposit" /\ op[t].amount > 0
                  /\ ret[t] # "pending") => ret[t] = "true"
            /\ (op[t].kind = "withdraw" /\ ret[t] = "false") =>
                  (op[t].amount <= 0 \/ Granted(t))

\* three sessions with valid amounts have returned; one of them timed out on
\* the first processor and was served by the second, and one withdrawal was
\* refused for lack of funds
C20_Witness ==
    /\ AllSessions /\ AllDone
    /\ \A t \in Threads : ValidCall(t) /\ Granted(t)
    /\ \E t \in Threads : lock[t] = 2
    /\ \E t \in Threads : op[t].kind = "withdraw" /\ ret[t] = "false"
    /\ \E t \in Threads : op[t].kind = "deposit" /\ ret[t] = "true"

====
